---- MODULE Spec2Model ----
(***************************************************************************)
(* Model of web-crawler/crawler.go: the SafeCache (visited map + routine   *)
(* counter behind one mutex), the recursive goroutine crawl, and Crawl,    *)
(* which starts the first goroutine and ranges over the unbuffered result  *)
(* channel until some goroutine closes it.                                 *)
(*                                                                         *)
(* Every SafeCache method takes the mutex for its whole body, so each call *)
(* is one atomic step.  Goroutines are named by their position in the      *)
(* spawn tree: <<>> is the goroutine started by Crawl, Append(p, i) the    *)
(* one started by p for the i-th url of its fetch result.                  *)
(***************************************************************************)
EXTENDS Integers, Sequences, FiniteSets, TLC

\* Largest depth argument handed to Crawl.
MaxDepth == 3

nil == "nil"
NotFound == "not found"

(***************************************************************************)
(* Fetchers.  A fetcher maps a url to what Fetch returns for it; a url     *)
(* that is not in the map is answered as fakeFetcher.Fetch answers it.     *)
(***************************************************************************)
Page(body, urls) == [body |-> body, urls |-> urls, err |-> nil]

\* The populated fakeFetcher of the program.
fetcher ==
  ( "https://golang.org/" :>
       Page("The Go Programming Language",
            << "https://golang.org/pkg/", "https://golang.org/cmd/" >>) )
  @@ ( "https://golang.org/pkg/" :>
       Page("Packages",
            << "https://golang.org/", "https://golang.org/cmd/",
               "https://golang.org/pkg/fmt/", "https://golang.org/pkg/os/" >>) )
  @@ ( "https://golang.org/pkg/fmt/" :>
       Page("Package fmt", << "https://golang.org/", "https://golang.org/pkg/" >>) )
  @@ ( "https://golang.org/pkg/os/" :>
       Page("Package os", << "https://golang.org/", "https://golang.org/pkg/" >>) )

\* fakeFetcher values for other graphs.
CycleFetcher ==
  ("A" :> Page("a", << "B", "C" >>)) @@ ("B" :> Page("b", << "A" >>))

DiamondFetcher ==
  ("A" :> Page("a", << "B", "D" >>)) @@ ("B" :> Page("b", << "D" >>))
  @@ ("D" :> Page("d", << "E" >>)) @@ ("E" :> Page("e", << >>))

TwiceFetcher ==
  ("A" :> Page("a", << "B", "B" >>)) @@ ("B" :> Page("b", << "B" >>))

\* A Fetcher (the interface) that returns urls together with an error.
ErrUrlsFetcher ==
  ("A" :> Page("a", << "X", "B" >>)) @@ ("B" :> Page("b", << >>))
  @@ ("X" :> [body |-> "", urls |-> << "Y" >>, err |-> "timeout"])
  @@ ("Y" :> Page("y", << >>))

Inputs ==
  { [url |-> "https://golang.org/", fetcher |-> fetcher],
    [url |-> "A", fetcher |-> CycleFetcher],
    [url |-> "A", fetcher |-> DiamondFetcher],
    [url |-> "A", fetcher |-> TwiceFetcher],
    [url |-> "A", fetcher |-> ErrUrlsFetcher] }

Fetch(f, url) ==
  IF url \in DOMAIN f
    THEN f[url]
    ELSE [body |-> "", urls |-> << >>, err |-> NotFound]

VARIABLES
  input,     \* arguments of Crawl: url, depth, fetcher
  cache,     \* the SafeCache: visited (urls mapped to true), routine
  closed,    \* whether ch has been closed
  received,  \* FetchResults the range loop of Crawl has received, in order
  errLog,    \* errors printed by crawl
  units,     \* the crawl goroutines: spawn path -> url, depth, pc, i (index
             \* of the range loop over urls)
  crawlPc,   \* position of Crawl
  panic,     \* runtime panic that ended the process, or nil
  mux        \* cache.mux: the goroutines that hold it (none when unlocked)

vars == << input, cache, closed, received, errLog, units, crawlPc, panic, mux >>

Init ==
  /\ input \in { [url |-> in.url, depth |-> d, fetcher |-> in.fetcher] :
                   in \in Inputs, d \in 0..MaxDepth }
  /\ cache = [visited |-> {}, routine |-> 0]
  /\ closed = FALSE
  /\ received = << >>
  /\ errLog = {}
  /\ units = << >>
  /\ crawlPc = "start"
  /\ panic = nil
  /\ mux = {}

(***************************************************************************)
(* SafeCache                                                               *)
(***************************************************************************)
\* c.mux.Lock() blocks while the mutex is held; c.mux.Unlock() releases it.
CanLock(m) == m = {}

Lock(m, p) == m \cup {p}

\* A method that returns without Unlock.
Unlock_Forgotten(m, p) == m

Unlock(m, p) == m \ {p}

\* Variants of Visited: one that overwrites the map, one that marks nothing.
Visited_Overwrites(c, url) == [c EXCEPT !.visited = {url}]

Visited_MarksNothing(c, url) == c

Visited(c, url) == [c EXCEPT !.visited = @ \cup {url}]

IsVisited(c, url) == url \in c.visited

\* An AddRoutine that does not count.
AddRoutine_CountsNothing(c) == c

AddRoutine(c) == [c EXCEPT !.routine = @ + 1]

DoneRoutine(c) == [c EXCEPT !.routine = @ - 1]

GetRoutineNum(c) == c.routine

(***************************************************************************)
(* crawl                                                                   *)
(***************************************************************************)
Root == << >>

Running == panic = nil

Res(p) == Fetch(input.fetcher, units[p].url)

\* Variants of the depth guard: one that lets depth 0 through, one that
\* stops a level early.
DepthGuard_LetsZeroThrough(depth) == depth < 0

DepthGuard_StopsEarly(depth) == depth <= 1

DepthGuard(depth) == depth <= 0

ChildDepth(depth) == depth - 1

\* Variants of the test in chanCloseFunc: one that is off by one, one that
\* closes whatever the counter is.
ShouldClose_OffByOne(n) == n <= 1

ShouldClose_Always(n) == TRUE

\* chanCloseFunc closes when the counter it reads is not positive.
ShouldClose(n) == n <= 0

\* Position after the range loop has moved to index i of urls.
LoopPc(i, urls) == IF i > Len(urls) THEN "done_routine" ELSE "loop"

\* Variants of the err branch: one that skips the send but still ranges over
\* urls, one that is missing altogether.
AfterFetch_ErrFansOut(err, urls) == IF err # nil THEN LoopPc(1, urls) ELSE "send"

AfterFetch_NoErrBranch(err, urls) == "send"

\* Where crawl goes after Fetch: the err branch skips the send and the loop.
AfterFetch(err, urls) == IF err # nil THEN "done_routine" ELSE "send"

NewUnit(url, depth) == [url |-> url, depth |-> depth, pc |-> "start", i |-> 1]

Spawn(us, p, url, depth) == (p :> NewUnit(url, depth)) @@ us

\* Crawl up to the range loop: make the cache and the channel, count the
\* first goroutine and start it.
CrawlStart ==
  /\ Running
  /\ crawlPc = "start"
  /\ cache' = AddRoutine([visited |-> {}, routine |-> 0])
  /\ units' = Spawn(units, Root, input.url, input.depth)
  /\ crawlPc' = "range"
  /\ CanLock(mux)
  /\ mux' = Unlock(Lock(mux, Root), Root)
  /\ UNCHANGED << input, closed, received, errLog, panic >>

\* The SafeCache call that p is about to make, if any.
AtCacheCall(p) ==
  \/ units[p].pc = "start" /\ ~DepthGuard(units[p].depth)
  \/ units[p].pc \in {"loop", "add", "done_routine", "get_num"}

\* c.mux.Lock() at the head of a SafeCache method, as a step of its own.
UnitLock(p) ==
  /\ Running
  /\ AtCacheCall(p)
  /\ p \notin mux
  /\ CanLock(mux)
  /\ mux' = Lock(mux, p)
  /\ UNCHANGED << input, cache, closed, received, errLog, units, crawlPc, panic >>

\* The depth guard and, past it, the body of cache.Visited(url) up to its
\* Unlock, run with the mutex in state m.
UnitStartOp(p, m) ==
  /\ Running
  /\ units[p].pc = "start"
  /\ IF DepthGuard(units[p].depth)
       THEN /\ units' = [units EXCEPT ![p].pc = "returned"]
            /\ UNCHANGED << cache, mux >>
       ELSE /\ p \in m
            /\ cache' = Visited(cache, units[p].url)
            /\ mux' = Unlock(m, p)
            /\ units' = [units EXCEPT ![p].pc = "fetch"]
  /\ UNCHANGED << input, closed, received, errLog, crawlPc, panic >>

\* The guard and cache.Visited(url), the method as one step.
UnitStart(p) == CanLock(mux) /\ UnitStartOp(p, Lock(mux, p))

\* The same after a separate UnitLock step.
UnitStartLocked(p) == UnitStartOp(p, mux)

\* fetcher.Fetch(url) and the err branch up to Println(err).
UnitFetch(p) ==
  /\ Running
  /\ units[p].pc = "fetch"
  /\ units' = [units EXCEPT ![p].pc = AfterFetch(Res(p).err, Res(p).urls)]
  /\ errLog' = IF Res(p).err # nil
                 THEN errLog \cup { [url |-> units[p].url, err |-> Res(p).err] }
                 ELSE errLog
  /\ UNCHANGED << input, cache, closed, received, crawlPc, panic, mux >>

FetchResult(p) == [url |-> units[p].url, body |-> Res(p).body, err |-> Res(p).err]

\* ch <- result: a rendezvous with the receive of Crawl's range loop;
\* a send on a closed channel panics.
UnitSend(p) ==
  /\ Running
  /\ units[p].pc = "send"
  /\ IF closed
       THEN /\ panic' = "send on closed channel"
            /\ UNCHANGED << received, crawlPc, units >>
       ELSE /\ crawlPc = "range"
            /\ received' = Append(received, FetchResult(p))
            /\ crawlPc' = "print"
            /\ units' = [units EXCEPT ![p].pc = LoopPc(units[p].i, Res(p).urls)]
            /\ UNCHANGED panic
  /\ UNCHANGED << input, cache, closed, errLog, mux >>

\* One iteration's test: !cache.IsVisited(u).
UnitIsVisitedOp(p, m) ==
  /\ Running
  /\ units[p].pc = "loop"
  /\ p \in m
  /\ mux' = Unlock(m, p)
  /\ LET u == Res(p).urls[units[p].i]
     IN  IF IsVisited(cache, u)
           THEN units' = [units EXCEPT ![p].i = @ + 1,
                                       ![p].pc = LoopPc(units[p].i + 1, Res(p).urls)]
           ELSE units' = [units EXCEPT ![p].pc = "add"]
  /\ UNCHANGED << input, cache, closed, received, errLog, crawlPc, panic >>

UnitIsVisited(p) == CanLock(mux) /\ UnitIsVisitedOp(p, Lock(mux, p))

UnitIsVisitedLocked(p) == UnitIsVisitedOp(p, mux)

\* cache.AddRoutine() and go crawl(u, depth-1, ...).
UnitAddRoutineGoOp(p, m) ==
  /\ Running
  /\ units[p].pc = "add"
  /\ p \in m
  /\ mux' = Unlock(m, p)
  /\ LET i == units[p].i
         u == Res(p).urls[i]
     IN  /\ cache' = AddRoutine(cache)
         /\ units' = Spawn([units EXCEPT ![p].i = i + 1,
                                         ![p].pc = LoopPc(i + 1, Res(p).urls)],
                           Append(p, i), u, ChildDepth(units[p].depth))
  /\ UNCHANGED << input, closed, received, errLog, crawlPc, panic >>

UnitAddRoutineGo(p) == CanLock(mux) /\ UnitAddRoutineGoOp(p, Lock(mux, p))

UnitAddRoutineGoLocked(p) == UnitAddRoutineGoOp(p, mux)

UnitDoneRoutineOp(p, m) ==
  /\ Running
  /\ units[p].pc = "done_routine"
  /\ p \in m
  /\ mux' = Unlock(m, p)
  /\ cache' = DoneRoutine(cache)
  /\ units' = [units EXCEPT ![p].pc = "get_num"]
  /\ UNCHANGED << input, closed, received, errLog, crawlPc, panic >>

UnitDoneRoutine(p) == CanLock(mux) /\ UnitDoneRoutineOp(p, Lock(mux, p))

UnitDoneRoutineLocked(p) == UnitDoneRoutineOp(p, mux)

\* chanCloseFunc: n := cache.GetRoutineNum(); n <= 0.
UnitGetRoutineNumOp(p, m) ==
  /\ Running
  /\ units[p].pc = "get_num"
  /\ p \in m
  /\ mux' = Unlock(m, p)
  /\ units' = [units EXCEPT ![p].pc =
                 IF ShouldClose(GetRoutineNum(cache)) THEN "close" ELSE "returned"]
  /\ UNCHANGED << input, cache, closed, received, errLog, crawlPc, panic >>

UnitGetRoutineNum(p) == CanLock(mux) /\ UnitGetRoutineNumOp(p, Lock(mux, p))

UnitGetRoutineNumLocked(p) == UnitGetRoutineNumOp(p, mux)

\* close(ch), then return; closing a closed channel panics.
UnitClose(p) ==
  /\ Running
  /\ units[p].pc = "close"
  /\ IF closed
       THEN /\ panic' = "close of closed channel"
            /\ UNCHANGED << closed, units >>
       ELSE /\ closed' = TRUE
            /\ units' = [units EXCEPT ![p].pc = "returned"]
            /\ UNCHANGED panic
  /\ UNCHANGED << input, cache, received, errLog, crawlPc, mux >>

\* The body of the range loop: fmt.Printf of the received result.
CrawlPrint ==
  /\ Running
  /\ crawlPc = "print"
  /\ crawlPc' = "range"
  /\ UNCHANGED << input, cache, closed, received, errLog, units, panic, mux >>

\* The range loop ends on the closed channel and Crawl returns.
CrawlReturn ==
  /\ Running
  /\ crawlPc = "range"
  /\ closed
  /\ crawlPc' = "returned"
  /\ UNCHANGED << input, cache, closed, received, errLog, units, panic, mux >>

Next ==
  \/ CrawlStart
  \/ \E p \in DOMAIN units : UnitStart(p)
  \/ \E p \in DOMAIN units : UnitFetch(p)
  \/ \E p \in DOMAIN units : UnitSend(p)
  \/ \E p \in DOMAIN units : UnitIsVisited(p)
  \/ \E p \in DOMAIN units : UnitAddRoutineGo(p)
  \/ \E p \in DOMAIN units : UnitDoneRoutine(p)
  \/ \E p \in DOMAIN units : UnitGetRoutineNum(p)
  \/ \E p \in DOMAIN units : UnitClose(p)
  \/ CrawlPrint
  \/ CrawlReturn

Spec == Init /\ [][Next]_vars

\* The same program with Lock as a step of its own, so that the states in
\* which a goroutine holds the mutex are visible.
MuxNext ==
  \/ CrawlStart
  \/ \E p \in DOMAIN units : UnitLock(p)
  \/ \E p \in DOMAIN units : UnitStartLocked(p)
  \/ \E p \in DOMAIN units : UnitFetch(p)
  \/ \E p \in DOMAIN units : UnitSend(p)
  \/ \E p \in DOMAIN units : UnitIsVisitedLocked(p)
  \/ \E p \in DOMAIN units : UnitAddRoutineGoLocked(p)
  \/ \E p \in DOMAIN units : UnitDoneRoutineLocked(p)
  \/ \E p \in DOMAIN units : UnitGetRoutineNumLocked(p)
  \/ \E p \in DOMAIN units : UnitClose(p)
  \/ CrawlPrint
  \/ CrawlReturn

MuxSpec == Init /\ [][MuxNext]_vars

\* The Go scheduler keeps running goroutines that can run.
FairSpec == Spec /\ WF_vars(Next)

(***************************************************************************)
(* Vocabulary of the properties                                            *)
(***************************************************************************)
Started == crawlPc # "start"

Ids == DOMAIN units

\* p returned at the depth guard.
GuardExit(p) == units[p].pc = "returned" /\ DepthGuard(units[p].depth)

\* p has called fetcher.Fetch.
HasFetched(p) == units[p].pc \notin {"start", "fetch"} /\ ~GuardExit(p)

\* p has completed ch <- result.
HasSent(p) ==
  /\ units[p].pc \in {"loop", "add", "done_routine", "get_num", "close", "returned"}
  /\ ~GuardExit(p)
  /\ Res(p).err = nil

Failed(p) == HasFetched(p) /\ Res(p).err # nil

IsChild(q, p) == Len(q) = Len(p) + 1 /\ SubSeq(q, 1, Len(p)) = p

ReceivedUrls == { received[k].url : k \in 1..Len(received) }

\* Nothing can run any more: the process panicked, or every goroutine has
\* returned and Crawl has returned or waits on a channel nobody will close.
Terminal ==
  \/ panic # nil
  \/ /\ Started
     /\ \A p \in Ids : units[p].pc = "returned"
     /\ \/ crawlPc = "returned"
        \/ crawlPc = "range" /\ ~closed

\* Urls within k hops of the root along urls returned by a Fetch without error.
RECURSIVE Within(_)
Within(k) ==
  IF k <= 0
    THEN {input.url}
    ELSE LET prev == Within(k - 1)
         IN  prev \cup { Fetch(input.fetcher, n).urls[j] :
                           << n, j >> \in { << m, l >> \in prev \X (1..4) :
                                   /\ Fetch(input.fetcher, m).err = nil
                                   /\ l <= Len(Fetch(input.fetcher, m).urls) } }

(***************************************************************************)
(* Properties                                                              *)
(***************************************************************************)

\* C1: termination: the result stream is eventually closed and Crawl returns;
\* no goroutine leaves the counter above zero for good.  In the form a finite
\* run refutes: once nothing can run any more, Crawl has returned.
C1_Termination == Terminal => crawlPc = "returned"

\* C2: the result stream is closed at most once in every interleaving: no
\* goroutine executes close on a channel that another has already closed.
C2_ClosedAtMostOnce == panic # "close of closed channel"

\* C3: no premature closure: whenever the result stream is closed, every
\* goroutine that has been spawned has returned from crawl.
C3_NoPrematureClosure == closed => \A p \in Ids : units[p].pc = "returned"

\* C4: each url is visited at most once: Fetch is called for a given url by
\* at most one goroutine, and at most one FetchResult per url reaches the
\* consumer.
C4_VisitedAtMostOnce ==
  /\ \A p, q \in Ids :
       (HasFetched(p) /\ HasFetched(q) /\ units[p].url = units[q].url) => p = q
  /\ \A j, k \in 1..Len(received) : received[j].url = received[k].url => j = k

\* C5 as stated: every url within maxDepth hops of the root along urls
\* returned by a Fetch without error gets a FetchResult emitted.  Checked in
\* the form a finite run refutes (once nothing can run any more, all of them
\* have been received) and in the reading most favourable to the statement:
\* the root counts as the first hop, and only urls whose own Fetch returns
\* no error are expected.
C5_NoMissedResultsWithinMaxDepth ==
  Terminal =>
    \A n \in Within(input.depth - 1) :
      (input.depth >= 1 /\ Fetch(input.fetcher, n).err = nil) => n \in ReceivedUrls

AllSent ==
  \A p \in Ids : (units[p].depth >= 1 /\ Res(p).err = nil) => HasSent(p)

\* C5 amended: every goroutine that is started with depth >= 1 and whose
\* Fetch returns no error eventually has its FetchResult received by Crawl.
C5_StartedUnitsEmit ==
  <>[](Started /\ AllSent /\ \A p \in Ids : HasSent(p) => units[p].url \in ReceivedUrls)

C5_Witness ==
  \E p \in Ids : p # Root /\ HasSent(p) /\ units[p].url \in ReceivedUrls /\ Terminal

\* C6: depth respected: every goroutine that pushes a result runs with
\* depth >= 1 and is at most maxDepth-1 spawn steps below the root, so every
\* received result is for a url at most maxDepth-1 traversed urls away.
C6_DepthRespected ==
  /\ \A p \in Ids :
       (units[p].pc = "send" \/ HasSent(p)) =>
          /\ units[p].depth >= 1
          /\ Len(p) <= input.depth - 1
          /\ units[p].depth = input.depth - Len(p)
  /\ \A k \in 1..Len(received) :
       \E p \in Ids : /\ units[p].url = received[k].url
                      /\ Len(p) <= input.depth - 1
                      /\ received[k].url \in Within(input.depth - 1)

C6_Witness ==
  \E p, q \in Ids : /\ HasSent(p) /\ units[p].depth = 1 /\ Len(p) >= 1
                    /\ IsChild(q, p) /\ GuardExit(q)

C8_FailedFetchNoResult ==
  /\ \A k \in 1..Len(received) :
       /\ received[k].err = nil
       /\ Fetch(input.fetcher, received[k].url).err = nil
  /\ \A p \in Ids : Failed(p) => units[p].pc # "send" /\ ~HasSent(p)
  /\ \A e \in errLog : e.url \notin ReceivedUrls

C8_Witness ==
  /\ Len(received) >= 2
  /\ \E p \in Ids : Failed(p) /\ units[p].pc = "returned"
  /\ crawlPc = "returned"

\* C9: the scenario A -> [B, C], B -> [A], Fetch(C) fails, maxDepth 2: every
\* interleaving delivers exactly A and B, reports the error for C, starts no
\* second goroutine for A, closes the stream exactly once and Crawl returns.
C9_Scenario ==
  (input.url = "A" /\ input.fetcher = CycleFetcher /\ input.depth = 2) =>
     /\ panic = nil
     /\ \A p \in Ids : units[p].url = "A" => p = Root
     /\ Terminal => /\ crawlPc = "returned"
                    /\ closed
                    /\ Len(received) = 2
                    /\ ReceivedUrls = {"A", "B"}
                    /\ { e.url : e \in errLog } = {"C"}

\* C10: depth guard accounting: the counter is never incremented on behalf of
\* a goroutine that is started with depth <= 0, neither by a parent nor by
\* Crawl.
C10_GuardExitNeverCounted ==
  [][\A p \in DOMAIN units' \ DOMAIN units :
        units'[p].depth <= 0 => cache'.routine = cache.routine]_vars

\* C11: every goroutine for which the counter was incremented decrements it
\* exactly once before it terminates, on every path, so that the counter
\* always equals the number of started goroutines that have not finalized.
C11_CounterIsLiveUnits ==
  Started =>
    cache.routine =
      Cardinality({ p \in Ids : units[p].pc \notin {"get_num", "close", "returned"} })

\* C12: every FetchResult that a goroutine pushes is received by the range
\* loop of Crawl before the stream is closed: no goroutine stays blocked on
\* the unbuffered send, and no result is lost because the stream closed first.
C12_PushedIsReceived ==
  /\ \A p \in Ids :
       HasSent(p) => \E k \in 1..Len(received) : received[k] = FetchResult(p)
  /\ Len(received) = Cardinality({ p \in Ids : HasSent(p) })
  /\ closed => AllSent
  /\ Terminal => \A p \in Ids : units[p].pc # "send"

C12_Witness ==
  /\ closed
  /\ crawlPc = "returned"
  /\ Len(received) >= 3
  /\ panic = nil

\* C13: the tracker lock is held only inside a single SafeCache operation: no
\* goroutine holds the mutex while it is inside Fetch, at the send on the
\* result stream or executing close, and at most one goroutine is inside a
\* SafeCache critical section at a time.
C13_LockOnlyInsideCacheCall ==
  /\ Cardinality(mux) <= 1
  /\ \A p \in mux :
       /\ p \in Ids
       /\ units[p].pc \notin {"fetch", "send", "close", "returned"}
       /\ AtCacheCall(p)

C13_Witness ==
  \E p, q, r \in Ids :
     /\ p \in mux
     /\ units[q].pc = "fetch"
     /\ units[r].pc = "send"

\* p has completed cache.Visited(url).
HasMarked(p) == units[p].pc # "start" /\ ~GuardExit(p)

\* C14: IsVisited(id) returns true iff a Visited(id) call has completed
\* earlier, IsVisited changes neither the visited set nor the counter, and
\* the visited set only grows.
C14_IsVisitedOnlyReads ==
  [][ /\ cache.visited \subseteq cache'.visited
      /\ \A p \in Ids :
           (units[p].pc = "loop" /\ units'[p] # units[p]) =>
              /\ cache' = cache
              /\ (units'[p].pc # "add") <=>
                   (\E q \in Ids : /\ HasMarked(q)
                                   /\ units[q].url = Res(p).urls[units[p].i])
    ]_vars

C14_Witness ==
  \E p, q \in Ids :
     /\ HasSent(p) /\ units[p].pc = "returned" /\ Len(Res(p).urls) >= 2
     /\ \A c \in Ids : ~IsChild(c, p)
     /\ units[q].pc = "returned" /\ \E c \in Ids : IsChild(c, q)

\* C15: no push on a closed stream: no goroutine sends on the result stream
\* after it has been closed; when it is closed every goroutine is past its
\* own DoneRoutine, hence past its send.
C15_NoSendOnClosed ==
  /\ panic # "send on closed channel"
  /\ closed => \A p \in Ids : units[p].pc \in {"get_num", "close", "returned"}

C15_Witness ==
  /\ closed
  /\ panic = nil
  /\ Len(received) >= 2
  /\ \E p \in Ids : units[p].pc = "get_num"

\* C16: the live-worker counter is never negative, and once it has reached
\* zero after the root goroutine was counted it stays zero.
C16_CounterNeverNegative ==
  [][ /\ cache.routine >= 0
      /\ cache'.routine >= 0
      /\ (Started /\ cache.routine = 0) => cache'.routine = 0
    ]_vars

C16_Witness ==
  /\ Started
  /\ cache.routine = 0
  /\ crawlPc = "returned"
  /\ Cardinality(Ids) >= 3

\* The goroutines on the spawn path from the root down to the parent of q.
Ancestors(q) == { SubSeq(q, 1, k) : k \in 0..(Len(q) - 1) }

\* C17: ancestors are never re-spawned: no goroutine is started for the url
\* of one of its ancestors in the spawn tree (nor, hence, does a goroutine
\* start one for its own url), and the root url is fetched exactly once when
\* maxDepth >= 1.
C17_AncestorsNeverRespawned ==
  /\ \A q \in Ids : \A a \in Ancestors(q) : a \in Ids /\ units[a].url # units[q].url
  /\ \A p \in Ids : units[p].url = input.url => p = Root
  /\ (Terminal /\ input.depth >= 1) => HasFetched(Root)

C17_Witness ==
  \E p \in Ids : \E j \in 1..Len(Res(p).urls) :
     /\ p # Root
     /\ HasSent(p)
     /\ units[p].i > j
     /\ \E a \in Ancestors(p) : units[a].url = Res(p).urls[j]
     /\ Append(p, j) \notin Ids

\* C18: parent-before-descendant delivery: the consumer receives the
\* FetchResult of a goroutine before that of any goroutine spawned, directly
\* or transitively, by it; the root's result is always the first received.
C18_ParentBeforeDescendant ==
  /\ Len(received) >= 1 => received[1] = FetchResult(Root)
  /\ \A q \in Ids : \A a \in Ancestors(q) :
       /\ HasSent(a)
       /\ HasSent(q) =>
            \E k, j \in 1..Len(received) :
               /\ k < j
               /\ received[k] = FetchResult(a)
               /\ received[j] = FetchResult(q)

C18_Witness ==
  \E q \in Ids : Len(q) >= 2 /\ HasSent(q) /\ Len(received) >= 4

====
